---------------------------- MODULE Spec2Model ----------------------------
(***************************************************************************)
(* The laser-tag transmitter state machine of src/lasertag/transmitter.c:  *)
(* a tick-driven machine (init_st, wait_st, sig_high_st, sig_low_st) that  *)
(* writes a square wave to one output pin.  The variables are the file's   *)
(* static fields and the pin; the actions are its public functions.        *)
(*                                                                         *)
(* pinWrite, runTrack, stopAt and stopStarts are observers: they record    *)
(* what the last operation wrote to the pin and how many bursts started    *)
(* after a given call.  runPending and frequencyArg are observers too: a   *)
(* run() call not yet followed by a burst start, and the last argument of  *)
(* setFrequencyNumber().  No operation reads them.  tickPc is the place of *)
(* a tick in progress in the specification that interleaves run() with the *)
(* statements of tick(); everywhere else a tick is one step.               *)
(***************************************************************************)
EXTENDS Integers, Naturals, Sequences, FiniteSets

VARIABLES currentState, signalTimer, continuousModeOn, running, pulseWidth,
          debugOn, currentFrequency, period, pin, pinWrite,
          runTrack, stopAt, stopStarts, tickPc, runPending, frequencyArg

vars == <<currentState, signalTimer, continuousModeOn, running, pulseWidth,
          debugOn, currentFrequency, period, pin, pinWrite,
          runTrack, stopAt, stopStarts, tickPc, runPending, frequencyArg>>

-----------------------------------------------------------------------------
(* Program constants *)

TRANSMITTER_HIGH_VALUE == 1
TRANSMITTER_LOW_VALUE == 0

\* signalTimer is a uint16_t, period a uint16_t, currentFrequency a uint8_t.
SignalTimerBits == 16
CurrentFrequencyBits == 8

\* transmitter.h is not part of the sources; the default burst length is
\* scaled down to a value the model can run through.
TRANSMITTER_PULSE_WIDTH == 25

\* filter.h is not part of the sources: a table of positive tick counts,
\* indexed from 0 by the frequency number.
filter_frequencyTickTable == <<10, 3, 1, 2>>

FILTER_FREQUENCY_COUNT == Len(filter_frequencyTickTable)

TableAt(f) == filter_frequencyTickTable[f + 1]

-----------------------------------------------------------------------------
(* Bounds of the model *)

\* The general specification takes no tick once signalTimer has reached
\* MaxTimer (a burst of period 1 or 2 never leaves sig_high_st).
MaxTimer == 30

\* Arguments the callers pass.
FrequencyNumbers == 0 .. (FILTER_FREQUENCY_COUNT - 1)
LongPeriodNumbers == {f \in FrequencyNumbers : TableAt(f) >= 3}
PulseWidths == {0, 4, TRANSMITTER_PULSE_WIDTH}

\* setFrequencyNumber() takes a uint16_t: one argument beyond 8 bits, whose
\* low byte is a valid index.
FrequencyArguments == FrequencyNumbers \cup {2 ^ CurrentFrequencyBits + 1}

\* setPulseWidth() takes a uint32_t: one width the 16-bit timer cannot pass.
WidePulseWidths == {TRANSMITTER_PULSE_WIDTH, 2 ^ SignalTimerBits - 1}

-----------------------------------------------------------------------------
(* The state *)

States == {"init_st", "wait_st", "sig_high_st", "sig_low_st"}

NoWrite == -1

NoArgument == -1

InBurst == currentState \in {"sig_high_st", "sig_low_st"}

Init ==
  /\ currentState = "init_st"
  /\ signalTimer = 0
  /\ continuousModeOn = FALSE
  /\ running = FALSE
  /\ pulseWidth = TRANSMITTER_PULSE_WIDTH
  /\ debugOn = FALSE
  /\ currentFrequency = 0
  /\ period = 0
  /\ pin = TRANSMITTER_LOW_VALUE
  /\ pinWrite = NoWrite
  /\ runTrack = "none"
  /\ stopAt = "none"
  /\ stopStarts = 0
  /\ tickPc = "idle"
  /\ runPending = FALSE
  /\ frequencyArg = NoArgument


-----------------------------------------------------------------------------
(* Helpers of the tick function *)

\* signalTimer++ on a uint16_t.
TimerInc(t) == (t + 1) % (2 ^ SignalTimerBits)

\* Variants of RunAfterStart: the request is never cleared; always cleared.
RunAfterStart_Kept == running

RunAfterStart_Cleared == FALSE

\* The run request after a burst start: cleared unless continuous mode is on.
RunAfterStart == IF ~continuousModeOn THEN FALSE ELSE running

\* Variant of HighToLow: >= for >.
HighToLow_Ge(t, p) == (t % p) >= (p \div 2)

\* sig_high_st leaves for sig_low_st.
HighToLow(t, p) == (t % p) > (p \div 2)

\* sig_low_st leaves for wait_st: the whole pulse has been sent.
LowToWait(t, w) == t > w

\* sig_low_st leaves for sig_high_st.
LowToHigh(t, p) == (t % p) < (p \div 2)

\* Variant of LowNext: the half-cycle check comes before the duration check.
LowNext_HalfCycleFirst(t, w, p) ==
  IF LowToHigh(t, p) THEN "sig_high_st"
  ELSE IF LowToWait(t, w) THEN "wait_st"
  ELSE "sig_low_st"

\* The state after sig_low_st: the duration check comes first.
LowNext(t, w, p) ==
  IF LowToWait(t, w) THEN "wait_st"
  ELSE IF LowToHigh(t, p) THEN "sig_high_st"
  ELSE "sig_low_st"

\* Variant of PeriodAtStart: the period is not read at the burst start.
PeriodAtStart_Stale == period

\* The period a burst starts with: the most recent tick count.
PeriodAtStart == TableAt(currentFrequency)

\* Variant of HighExitWrite: the pin is not written on leaving sig_high_st.
HighExitWrite_None == NoWrite

\* The level written to the pin on leaving sig_high_st for sig_low_st.
HighExitWrite == TRANSMITTER_LOW_VALUE

\* The transition switch: the state, the fields and the pin write it produces.
TransitionLogic ==
  CASE currentState = "init_st" ->
         [st |-> "wait_st", run |-> running, per |-> period,
          tm |-> signalTimer, wr |-> NoWrite]
    [] currentState = "wait_st" ->
         IF running
           THEN [st |-> "sig_high_st", run |-> RunAfterStart,
                 per |-> PeriodAtStart, tm |-> 0,
                 wr |-> TRANSMITTER_HIGH_VALUE]
           ELSE [st |-> "wait_st", run |-> running, per |-> period,
                 tm |-> signalTimer, wr |-> NoWrite]
    [] currentState = "sig_high_st" ->
         IF HighToLow(signalTimer, period)
           THEN [st |-> "sig_low_st", run |-> running, per |-> period,
                 tm |-> signalTimer, wr |-> HighExitWrite]
           ELSE [st |-> "sig_high_st", run |-> running, per |-> period,
                 tm |-> signalTimer, wr |-> NoWrite]
    [] currentState = "sig_low_st" ->
         LET n == LowNext(signalTimer, pulseWidth, period) IN
         [st |-> n, run |-> running, per |-> period, tm |-> signalTimer,
          wr |-> IF n = "sig_high_st" THEN TRANSMITTER_HIGH_VALUE ELSE NoWrite]

\* Variant of ActionLogic: the timer counts in every state.
ActionLogic_EveryState(st, tm) == TimerInc(tm)

\* The action switch: the timer counts in the state the transition reached.
ActionLogic(st, tm) ==
  IF st \in {"sig_high_st", "sig_low_st"} THEN TimerInc(tm) ELSE tm

\* This tick takes wait_st to sig_high_st: a burst starts.
BurstStarts == currentState = "wait_st" /\ TransitionLogic.st = "sig_high_st"

\* Observer: bursts started since a tracked run() call.
RunTrackAfterTick ==
  CASE runTrack = "idle_armed" ->
         IF BurstStarts THEN "idle_started" ELSE "idle_failed"
    [] runTrack = "idle_started" ->
         IF BurstStarts THEN "idle_second" ELSE "idle_started"
    [] runTrack = "mid_armed" ->
         IF BurstStarts THEN "mid_extra" ELSE "mid_armed"
    [] runTrack = "init_armed" ->
         IF TransitionLogic.st = "wait_st" THEN "init_waited" ELSE "init_failed"
    [] runTrack = "init_waited" ->
         IF BurstStarts THEN "init_started" ELSE "init_failed"
    [] OTHER -> runTrack

\* Observer: bursts started since a tracked setContinuousMode(false) call.
StopStartsAfterTick ==
  IF stopAt # "none" /\ BurstStarts /\ stopStarts < 2
    THEN stopStarts + 1
    ELSE stopStarts

-----------------------------------------------------------------------------
(* The operations *)

transmitter_setDebug(on) ==
  /\ debugOn' = on
  /\ pinWrite' = NoWrite
  /\ UNCHANGED <<currentState, signalTimer, continuousModeOn, running,
                 pulseWidth, currentFrequency, period, pin,
                 runTrack, stopAt, stopStarts>>
  /\ UNCHANGED <<tickPc, runPending, frequencyArg>>

\* Variant of transmitter_setPulseWidth: the burst timer is restarted.
transmitter_setPulseWidth_Restart(width) ==
  /\ pulseWidth' = width
  /\ signalTimer' = 0
  /\ pinWrite' = NoWrite
  /\ UNCHANGED <<currentState, continuousModeOn, running,
                 debugOn, currentFrequency, period, pin,
                 runTrack, stopAt, stopStarts>>
  /\ UNCHANGED <<tickPc, runPending, frequencyArg>>

transmitter_setPulseWidth(width) ==
  /\ pulseWidth' = width
  /\ pinWrite' = NoWrite
  /\ UNCHANGED <<currentState, signalTimer, continuousModeOn, running,
                 debugOn, currentFrequency, period, pin,
                 runTrack, stopAt, stopStarts>>
  /\ UNCHANGED <<tickPc, runPending, frequencyArg>>

\* Both continuous-mode setters store the flag and nothing else.  The
\* observers note a switch-off made while a run request is held.
StoreContinuousMode(on) ==
  /\ continuousModeOn' = on
  /\ pinWrite' = NoWrite
  /\ runTrack' = "none"
  /\ IF ~on /\ continuousModeOn /\ running
       THEN stopAt' = currentState /\ stopStarts' = 0
       ELSE IF ~on /\ ~continuousModeOn
         THEN UNCHANGED <<stopAt, stopStarts>>
         ELSE stopAt' = "none" /\ stopStarts' = 0
  /\ UNCHANGED <<currentState, signalTimer, running, pulseWidth, debugOn,
                 currentFrequency, period, pin>>
  /\ UNCHANGED <<tickPc, runPending, frequencyArg>>

transmitter_setContinuousModeOn(on) == StoreContinuousMode(on)

transmitter_setContinuousMode(continuousModeFlag) ==
  StoreContinuousMode(continuousModeFlag)

transmitter_init ==
  /\ currentState' = "init_st"
  /\ signalTimer' = 0
  /\ running' = FALSE
  /\ period' = TableAt(currentFrequency)
  /\ pinWrite' = NoWrite
  /\ runTrack' = "none"
  /\ stopAt' = "none"
  /\ stopStarts' = 0
  /\ UNCHANGED <<continuousModeOn, pulseWidth, debugOn, currentFrequency, pin>>
  /\ UNCHANGED <<tickPc, runPending, frequencyArg>>

transmitter_tick ==
  LET t == TransitionLogic IN
  /\ currentState' = t.st
  /\ running' = t.run
  /\ period' = t.per
  /\ signalTimer' = ActionLogic(t.st, t.tm)
  /\ pin' = IF t.wr = NoWrite THEN pin ELSE t.wr
  /\ pinWrite' = t.wr
  /\ runTrack' = RunTrackAfterTick
  /\ stopStarts' = StopStartsAfterTick
  /\ UNCHANGED <<continuousModeOn, pulseWidth, debugOn, currentFrequency,
                 stopAt>>
  /\ UNCHANGED <<tickPc, runPending, frequencyArg>>

transmitter_run ==
  /\ running' = TRUE
  /\ pinWrite' = NoWrite
  /\ runTrack' = IF ~continuousModeOn /\ ~running /\ currentState = "wait_st"
                   THEN "idle_armed"
                   ELSE IF ~continuousModeOn /\ ~running /\ InBurst
                     THEN "mid_armed"
                     ELSE IF ~running /\ currentState = "init_st"
                       THEN "init_armed"
                       ELSE "none"
  /\ stopAt' = "none"
  /\ stopStarts' = 0
  /\ UNCHANGED <<currentState, signalTimer, continuousModeOn, pulseWidth,
                 debugOn, currentFrequency, period, pin>>
  /\ UNCHANGED <<tickPc, runPending, frequencyArg>>

transmitter_running == running

\* Variant of transmitter_setFrequencyNumber: the period follows at once.
transmitter_setFrequencyNumber_Eager(frequencyNumber) ==
  /\ currentFrequency' = frequencyNumber % (2 ^ CurrentFrequencyBits)
  /\ period' = TableAt(frequencyNumber % (2 ^ CurrentFrequencyBits))
  /\ pinWrite' = NoWrite
  /\ UNCHANGED <<currentState, signalTimer, continuousModeOn, running,
                 pulseWidth, debugOn, pin, runTrack, stopAt, stopStarts>>
  /\ frequencyArg' = frequencyNumber
  /\ UNCHANGED <<tickPc, runPending>>

\* The uint16_t argument is stored in the uint8_t currentFrequency.
transmitter_setFrequencyNumber(frequencyNumber) ==
  /\ currentFrequency' = frequencyNumber % (2 ^ CurrentFrequencyBits)
  /\ pinWrite' = NoWrite
  /\ UNCHANGED <<currentState, signalTimer, continuousModeOn, running,
                 pulseWidth, debugOn, period, pin,
                 runTrack, stopAt, stopStarts>>
  /\ frequencyArg' = frequencyNumber
  /\ UNCHANGED <<tickPc, runPending>>

transmitter_getFrequencyNumber == currentFrequency

-----------------------------------------------------------------------------
(* The general specification: every operation, at any time *)

TickStep == signalTimer < MaxTimer /\ transmitter_tick

SetFrequencyStep ==
  \E n \in FrequencyArguments : transmitter_setFrequencyNumber(n)

SetPulseWidthStep == \E w \in PulseWidths : transmitter_setPulseWidth(w)

SetContinuousModeStep == \E b \in BOOLEAN : transmitter_setContinuousMode(b)

SetContinuousModeOnStep == \E b \in BOOLEAN : transmitter_setContinuousModeOn(b)

SetDebugStep == \E b \in BOOLEAN : transmitter_setDebug(b)

Next ==
  \/ transmitter_init
  \/ TickStep
  \/ transmitter_run
  \/ SetFrequencyStep
  \/ SetPulseWidthStep
  \/ SetContinuousModeStep
  \/ SetContinuousModeOnStep
  \/ SetDebugStep

Spec == Init /\ [][Next]_vars

TypeOK ==
  /\ currentState \in States
  /\ signalTimer \in 0 .. MaxTimer
  /\ continuousModeOn \in BOOLEAN
  /\ running \in BOOLEAN
  /\ pulseWidth \in PulseWidths
  /\ debugOn \in BOOLEAN
  /\ currentFrequency \in FrequencyNumbers
  /\ period \in {0} \cup {TableAt(f) : f \in FrequencyNumbers}
  /\ pin \in {TRANSMITTER_LOW_VALUE, TRANSMITTER_HIGH_VALUE}
  /\ pinWrite \in {NoWrite, TRANSMITTER_LOW_VALUE, TRANSMITTER_HIGH_VALUE}

-----------------------------------------------------------------------------
(* Ticks keep coming (the timer interrupt), frequencies of period >= 3 only *)

SetLongFrequencyStep ==
  \E n \in LongPeriodNumbers : transmitter_setFrequencyNumber(n)

LongPeriodNext ==
  \/ transmitter_init
  \/ transmitter_tick
  \/ transmitter_run
  \/ SetLongFrequencyStep
  \/ SetPulseWidthStep
  \/ SetContinuousModeStep
  \/ SetContinuousModeOnStep
  \/ SetDebugStep

LongPeriodSpec ==
  Init /\ [][LongPeriodNext]_vars /\ WF_vars(transmitter_tick)

-----------------------------------------------------------------------------
(* One-shot bursts: the pulse width and the frequency are set, init() is   *)
(* called, then run() is called only on an idle machine and ticks keep     *)
(* coming.  Every table entry is used and the timer has its full width.    *)

OneShotInit ==
  /\ currentState = "init_st"
  /\ signalTimer = 0
  /\ continuousModeOn = FALSE
  /\ running = FALSE
  /\ pulseWidth \in PulseWidths
  /\ debugOn = FALSE
  /\ currentFrequency \in FrequencyNumbers
  /\ period = TableAt(currentFrequency)
  /\ pin = TRANSMITTER_LOW_VALUE
  /\ pinWrite = NoWrite
  /\ runTrack = "none"
  /\ stopAt = "none"
  /\ stopStarts = 0
  /\ tickPc = "idle"
  /\ runPending = FALSE
  /\ frequencyArg = NoArgument

OneShotRun == currentState = "wait_st" /\ ~running /\ transmitter_run

OneShotNext ==
  \/ OneShotRun
  \/ transmitter_tick

OneShotSpec ==
  OneShotInit /\ [][OneShotNext]_vars /\ WF_vars(transmitter_tick)

-----------------------------------------------------------------------------
(* After a single init(): the setters may have been called before it, and  *)
(* init() is not called again.                                             *)

AfterInit ==
  /\ currentState = "init_st"
  /\ signalTimer = 0
  /\ continuousModeOn \in BOOLEAN
  /\ running = FALSE
  /\ pulseWidth \in PulseWidths
  /\ debugOn \in BOOLEAN
  /\ currentFrequency \in FrequencyNumbers
  /\ period = TableAt(currentFrequency)
  /\ pin = TRANSMITTER_LOW_VALUE
  /\ pinWrite = NoWrite
  /\ runTrack = "none"
  /\ stopAt = "none"
  /\ stopStarts = 0
  /\ tickPc = "idle"
  /\ runPending = FALSE
  /\ frequencyArg = NoArgument

AfterInitNext ==
  \/ TickStep
  \/ transmitter_run
  \/ SetFrequencyStep
  \/ SetPulseWidthStep
  \/ SetContinuousModeStep
  \/ SetContinuousModeOnStep
  \/ SetDebugStep

AfterInitSpec == AfterInit /\ [][AfterInitNext]_vars

-----------------------------------------------------------------------------
(* A pulse width beyond the range of the 16-bit timer, periods >= 3: one-  *)
(* shot bursts as in OneShotSpec.                                          *)

WidePulseInit ==
  /\ currentState = "init_st"
  /\ signalTimer = 0
  /\ continuousModeOn = FALSE
  /\ running = FALSE
  /\ pulseWidth \in WidePulseWidths
  /\ debugOn = FALSE
  /\ currentFrequency \in LongPeriodNumbers
  /\ period = TableAt(currentFrequency)
  /\ pin = TRANSMITTER_LOW_VALUE
  /\ pinWrite = NoWrite
  /\ runTrack = "none"
  /\ stopAt = "none"
  /\ stopStarts = 0
  /\ tickPc = "idle"
  /\ runPending = FALSE
  /\ frequencyArg = NoArgument

WidePulseSpec ==
  WidePulseInit /\ [][OneShotNext]_vars /\ WF_vars(transmitter_tick)

-----------------------------------------------------------------------------
(* run() in another context than tick(): non-continuous mode, periods >= 3.*)
(* A tick is taken statement by statement and run() may come between any   *)
(* two of them: after the read of the request in wait_st (line 76), after  *)
(* its clearing (line 78), after the burst start (line 83).                *)

RaceInit ==
  /\ currentState = "init_st"
  /\ signalTimer = 0
  /\ continuousModeOn = FALSE
  /\ running = FALSE
  /\ pulseWidth \in PulseWidths
  /\ debugOn = FALSE
  /\ currentFrequency \in LongPeriodNumbers
  /\ period = TableAt(currentFrequency)
  /\ pin = TRANSMITTER_LOW_VALUE
  /\ pinWrite = NoWrite
  /\ runTrack = "none"
  /\ stopAt = "none"
  /\ stopStarts = 0
  /\ tickPc = "idle"
  /\ runPending = FALSE
  /\ frequencyArg = NoArgument

\* run(): the one store; the observer notes the call.
RaceRun ==
  /\ running' = TRUE
  /\ runPending' = TRUE
  /\ UNCHANGED <<currentState, signalTimer, continuousModeOn, pulseWidth,
                 debugOn, currentFrequency, period, pin, pinWrite,
                 runTrack, stopAt, stopStarts, tickPc, frequencyArg>>

\* The transition switch up to the read of the request: in wait_st with
\* the request set the tick goes on to clear it; every other case is the
\* whole transition (it neither reads nor writes the request).
TickSwitch ==
  /\ tickPc = "idle"
  /\ IF currentState = "wait_st" /\ running
       THEN /\ tickPc' = "clear"
            /\ UNCHANGED <<currentState, pin, pinWrite>>
       ELSE /\ tickPc' = "action"
            /\ currentState' = TransitionLogic.st
            /\ pin' = IF TransitionLogic.wr = NoWrite
                        THEN pin ELSE TransitionLogic.wr
            /\ pinWrite' = TransitionLogic.wr
  /\ UNCHANGED <<signalTimer, continuousModeOn, running, pulseWidth, debugOn,
                 currentFrequency, period, runTrack, stopAt, stopStarts,
                 runPending, frequencyArg>>

\* if (!continuousModeOn) running = false;
TickClear ==
  /\ tickPc = "clear"
  /\ running' = RunAfterStart
  /\ tickPc' = "start"
  /\ UNCHANGED <<currentState, signalTimer, continuousModeOn, pulseWidth,
                 debugOn, currentFrequency, period, pin, pinWrite,
                 runTrack, stopAt, stopStarts, runPending, frequencyArg>>

\* The burst start: the pin, the period, the timer, the state.  Every
\* run() call made so far is followed by this transition.
TickStart ==
  /\ tickPc = "start"
  /\ pin' = TRANSMITTER_HIGH_VALUE
  /\ pinWrite' = TRANSMITTER_HIGH_VALUE
  /\ period' = PeriodAtStart
  /\ signalTimer' = 0
  /\ currentState' = "sig_high_st"
  /\ runPending' = FALSE
  /\ tickPc' = "action"
  /\ UNCHANGED <<continuousModeOn, running, pulseWidth, debugOn,
                 currentFrequency, runTrack, stopAt, stopStarts, frequencyArg>>

\* Variant of TickCount: the request is cleared here, after the burst
\* start, instead of before it.
TickCount_ClearsLate ==
  /\ tickPc = "action"
  /\ signalTimer' = ActionLogic(currentState, signalTimer)
  /\ running' = IF currentState = "sig_high_st" /\ signalTimer = 0
                  THEN FALSE ELSE running
  /\ tickPc' = "idle"
  /\ UNCHANGED <<currentState, continuousModeOn, pulseWidth,
                 debugOn, currentFrequency, period, pin, pinWrite,
                 runTrack, stopAt, stopStarts, runPending, frequencyArg>>

\* The action switch.
TickCount ==
  /\ tickPc = "action"
  /\ signalTimer' = ActionLogic(currentState, signalTimer)
  /\ tickPc' = "idle"
  /\ UNCHANGED <<currentState, continuousModeOn, running, pulseWidth,
                 debugOn, currentFrequency, period, pin, pinWrite,
                 runTrack, stopAt, stopStarts, runPending, frequencyArg>>

TickStatement ==
  \/ TickSwitch
  \/ TickClear
  \/ TickStart
  \/ TickCount

RaceNext ==
  \/ RaceRun
  \/ TickStatement

RaceSpec == RaceInit /\ [][RaceNext]_vars /\ WF_vars(TickStatement)

-----------------------------------------------------------------------------
(* Claims *)

\* C1: after the first tick, running() is true if and only if the machine
\* is in sig_high_st or sig_low_st, or in wait_st with a run request
\* pending; in non-continuous mode it stays true during the whole burst.
C1_RunningIffActive ==
  currentState # "init_st" =>
    (transmitter_running <=>
       (InBurst \/ (currentState = "wait_st" /\ running)))

\* C2: in non-continuous mode, one run() on an idle machine followed by
\* ticks (no further run(), init() or continuous-mode call) starts a burst
\* on the next tick and never starts a second one.
C2_OneRunOneBurst == runTrack \notin {"idle_failed", "idle_second"}

\* C2 witness: the one burst is over and the machine idles.
C2_Witness ==
  /\ runTrack = "idle_started"
  /\ currentState = "wait_st"
  /\ signalTimer > pulseWidth
  /\ ~running

\* C3: with period T <= pulse width P, after each tick of a one-shot burst
\* that evaluated timer value t in 0..P the pin is HIGH when
\* t mod T <= T/2 and LOW otherwise, and the machine then returns to
\* wait_st with running() false.
C3_WaveformThenWait ==
  /\ [](( /\ InBurst
          /\ period <= pulseWidth
          /\ signalTimer >= 1
          /\ signalTimer - 1 <= pulseWidth)
        => pin = (IF ((signalTimer - 1) % period) <= (period \div 2)
                    THEN TRANSMITTER_HIGH_VALUE
                    ELSE TRANSMITTER_LOW_VALUE))
  /\ ((runTrack = "idle_started" /\ period <= pulseWidth)
        ~> (currentState = "wait_st" /\ ~transmitter_running))

\* C4: in continuous mode with the run request set, every tick(), run(),
\* setFrequencyNumber() and setPulseWidth() leaves running() true.
C4_ContinuousStaysRunning ==
  [][( /\ continuousModeOn
       /\ transmitter_running
       /\ \/ transmitter_tick
          \/ transmitter_run
          \/ SetFrequencyStep
          \/ SetPulseWidthStep)
     => running']_vars

\* C4 witness: a whole burst has been sent in continuous mode and the
\* request is still set.
C4_Witness ==
  /\ continuousModeOn
  /\ running
  /\ currentState = "wait_st"
  /\ signalTimer > pulseWidth
  /\ pin = TRANSMITTER_LOW_VALUE
  /\ pinWrite = NoWrite

\* C5: setFrequencyNumber() during a burst leaves the cached period alone;
\* the period changes only in init() or on a tick from wait_st to
\* sig_high_st, where it becomes the table entry of the frequency number
\* current at that tick.
C5_PeriodSetAtBurstStart ==
  [][ /\ (InBurst /\ SetFrequencyStep) => period' = period
      /\ (period' # period) =>
           /\ transmitter_init \/ (transmitter_tick /\ BurstStarts)
           /\ period' = TableAt(currentFrequency)
      /\ (transmitter_tick /\ BurstStarts) =>
           period' = TableAt(currentFrequency) ]_vars

\* C5 witness: the frequency number was changed during a burst, which
\* goes on with the period it started with.
C5_Witness ==
  /\ InBurst
  /\ signalTimer > 1
  /\ period # TableAt(currentFrequency)

\* C6: after setContinuousMode(false) called in sig_low_st while running in
\* continuous mode, and no run() since, no further burst starts.
C6_NoBurstAfterStopInLow == stopAt = "sig_low_st" => stopStarts = 0

C8_RunDuringBurstIgnored == runTrack # "mid_extra"

\* C9: every burst terminates: a machine in sig_high_st or sig_low_st
\* reaches wait_st after finitely many ticks, for every positive period
\* (1 and 2 included) and every fixed pulse width.
C9_BurstTerminates == InBurst ~> (currentState = "wait_st")

\* C10 as stated: with period 10 and pulse width 25 the burst goes low on
\* the tick that evaluates timer 6, high at 10, low at 16, and returns to
\* wait_st on the tick that evaluates 26, from either signal state.
C10_ReturnsToWaitAt26 ==
  [][(transmitter_tick /\ InBurst /\ period = 10 /\ pulseWidth = 25)
     => /\ (currentState = "sig_high_st" /\ signalTimer = 6)
             => currentState' = "sig_low_st"
        /\ (currentState = "sig_low_st" /\ signalTimer = 10)
             => currentState' = "sig_high_st"
        /\ (currentState = "sig_high_st" /\ signalTimer = 16)
             => currentState' = "sig_low_st"
        /\ (signalTimer = 26) => currentState' = "wait_st"]_vars

\* C10 amended: with period 10 and pulse width 25 the burst goes low on
\* the tick that evaluates timer 6, high at 10, low at 16, high at 20 and
\* low at 26 (the machine is in sig_high_st there, where the pulse width
\* is not checked), and returns to wait_st on the tick that evaluates 27.
C10_ReturnsToWaitAt27 ==
  [][(transmitter_tick /\ InBurst /\ period = 10 /\ pulseWidth = 25)
     => /\ (currentState = "sig_high_st" /\ signalTimer = 6)
             => currentState' = "sig_low_st"
        /\ (currentState = "sig_low_st" /\ signalTimer = 10)
             => currentState' = "sig_high_st"
        /\ (currentState = "sig_high_st" /\ signalTimer = 16)
             => currentState' = "sig_low_st"
        /\ (currentState = "sig_low_st" /\ signalTimer = 20)
             => currentState' = "sig_high_st"
        /\ (signalTimer = 26)
             => (currentState = "sig_high_st" /\ currentState' = "sig_low_st")
        /\ (signalTimer = 27)
             => (currentState = "sig_low_st" /\ currentState' = "wait_st")]_vars

\* C10 witness: the burst of period 10 and pulse width 25 has just ended,
\* on the tick that evaluated 27.
C10_Witness ==
  /\ currentState = "wait_st"
  /\ signalTimer = 27
  /\ period = 10
  /\ pulseWidth = 25
  /\ pin = TRANSMITTER_LOW_VALUE

\* C11 as stated: with pulse width 0 a burst enters sig_high_st with the
\* timer at 1 after that tick, and the very next tick returns to wait_st.
C11_SingleTickPulse ==
  [][(transmitter_tick /\ pulseWidth = 0)
     => /\ BurstStarts => (currentState' = "sig_high_st" /\ signalTimer' = 1)
        /\ (currentState = "sig_high_st" /\ signalTimer = 1)
             => currentState' = "wait_st"]_vars

\* C11 amended: with pulse width 0 a burst enters sig_high_st with the
\* timer at 1 after that tick; no tick takes sig_high_st to wait_st: the
\* machine stays there until the tick on which timer mod period >
\* period / 2 takes it to sig_low_st, and the tick after that one returns
\* to wait_st.
C11_PulseLastsHalfCycle ==
  [][(transmitter_tick /\ pulseWidth = 0)
     => /\ BurstStarts => (currentState' = "sig_high_st" /\ signalTimer' = 1)
        /\ (currentState = "sig_high_st")
             => /\ currentState' \in {"sig_high_st", "sig_low_st"}
                /\ (currentState' = "sig_low_st")
                     <=> ((signalTimer % period) > (period \div 2))
        /\ (currentState = "sig_low_st") => currentState' = "wait_st"]_vars

\* C11 witness: a burst of period 10 has ended with pulse width 0, on the
\* tick that evaluated 7: the pin was HIGH for six ticks.
C11_Witness ==
  /\ currentState = "wait_st"
  /\ pulseWidth = 0
  /\ period = 10
  /\ signalTimer = 7
  /\ pin = TRANSMITTER_LOW_VALUE

\* C12: in continuous mode with the run request set, a tick that starts in
\* wait_st always starts a burst and the request stays set, so the machine
\* is never in wait_st after two ticks in a row.
C12_OneWaitTickBetweenBursts ==
  [][(transmitter_tick /\ continuousModeOn /\ transmitter_running)
     => /\ running'
        /\ continuousModeOn'
        /\ (currentState = "wait_st")
             => (currentState' = "sig_high_st" /\ signalTimer' = 1)]_vars

\* C12 witness: a tick has just started a burst in continuous mode.
C12_Witness ==
  /\ continuousModeOn
  /\ running
  /\ currentState = "sig_high_st"
  /\ signalTimer = 1
  /\ pinWrite = TRANSMITTER_HIGH_VALUE

\* C13: whenever the machine is in sig_high_st or sig_low_st the cached
\* period is strictly positive.
C13_PeriodPositiveInBurst == InBurst => period > 0

\* C13 witness: a burst of period 3, read from the table at its start, is
\* in its low half.
C13_Witness ==
  /\ currentState = "sig_low_st"
  /\ period = 3
  /\ currentFrequency = 1

\* C14: a tick that starts in sig_low_st with the timer past the pulse
\* width goes to wait_st, writes nothing to the pin and does not count,
\* whatever the half-cycle check would say.
C14_DurationCheckWins ==
  [][(transmitter_tick /\ currentState = "sig_low_st"
        /\ signalTimer > pulseWidth)
     => /\ currentState' = "wait_st"
        /\ pinWrite' = NoWrite
        /\ pin' = pin
        /\ signalTimer' = signalTimer]_vars

\* C14 witness: a burst of period 10 ended on the tick that evaluated 10,
\* where 10 mod 10 < 5 holds as well.
C14_Witness ==
  /\ currentState = "wait_st"
  /\ period = 10
  /\ signalTimer = 10
  /\ pin = TRANSMITTER_LOW_VALUE
  /\ pinWrite = NoWrite

\* C15: after a single init(), whenever the machine is in init_st or
\* wait_st the last level written to the pin is LOW.
C15_IdlePinLow ==
  currentState \in {"init_st", "wait_st"} => pin = TRANSMITTER_LOW_VALUE

\* C15 witness: a burst has ended and the machine idles with the pin LOW.
C15_Witness ==
  /\ currentState = "wait_st"
  /\ signalTimer > pulseWidth
  /\ signalTimer > 0
  /\ ~running
  /\ pin = TRANSMITTER_LOW_VALUE

\* C16: run() and the setters change their own field only: not the state,
\* the timer, the cached period or the pin; only tick() writes the pin.
C16_SettersStoreOnly ==
  [][ /\ transmitter_run
           => /\ UNCHANGED <<currentState, signalTimer, period, pin,
                             continuousModeOn, pulseWidth, debugOn,
                             currentFrequency>>
              /\ pinWrite' = NoWrite
      /\ SetFrequencyStep
           => /\ UNCHANGED <<currentState, signalTimer, period, pin,
                             continuousModeOn, pulseWidth, debugOn, running>>
              /\ pinWrite' = NoWrite
      /\ (SetContinuousModeStep \/ SetContinuousModeOnStep)
           => /\ UNCHANGED <<currentState, signalTimer, period, pin,
                             currentFrequency, pulseWidth, debugOn, running>>
              /\ pinWrite' = NoWrite
      /\ SetPulseWidthStep
           => /\ UNCHANGED <<currentState, signalTimer, period, pin,
                             continuousModeOn, currentFrequency, debugOn,
                             running>>
              /\ pinWrite' = NoWrite
      /\ SetDebugStep
           => /\ UNCHANGED <<currentState, signalTimer, period, pin,
                             continuousModeOn, pulseWidth, currentFrequency,
                             running>>
              /\ pinWrite' = NoWrite
      /\ (pinWrite' # NoWrite) => transmitter_tick ]_vars

\* C16 witness: every setter has been called during a burst, which goes
\* on with its state, timer, period and pin.
C16_Witness ==
  /\ currentState = "sig_high_st"
  /\ signalTimer = 3
  /\ period = 10
  /\ pin = TRANSMITTER_HIGH_VALUE
  /\ pinWrite = NoWrite
  /\ debugOn
  /\ continuousModeOn
  /\ running
  /\ pulseWidth = 4
  /\ currentFrequency = 1

\* C17: a tick that starts in init_st, or in wait_st with no run request,
\* writes nothing to the pin, leaves the timer, the period and the request
\* alone and ends in wait_st; after a run() made in init_st the first tick
\* only moves to wait_st and the second one starts the burst.
C17_IdleTickNoEffect ==
  /\ [][(transmitter_tick
           /\ (currentState = "init_st"
                 \/ (currentState = "wait_st" /\ ~running)))
        => /\ currentState' = "wait_st"
           /\ pinWrite' = NoWrite
           /\ UNCHANGED <<pin, signalTimer, period, running>>]_vars
  /\ [](runTrack # "init_failed")

\* C17 witness: run() came in init_st, the first tick moved to wait_st and
\* the second one started the burst.
C17_Witness ==
  /\ runTrack = "init_started"
  /\ currentState = "sig_high_st"
  /\ signalTimer = 1

C19_TimerNeverWraps ==
  [][(transmitter_tick /\ InBurst /\ currentState' # "wait_st")
     => signalTimer' = signalTimer + 1]_vars

\* C20: getFrequencyNumber() returns the value last passed to
\* setFrequencyNumber(), for every 16-bit argument.
C20_GetReturnsLastSet ==
  frequencyArg # NoArgument => transmitter_getFrequencyNumber = frequencyArg

=============================================================================
